---------------------------- MODULE Spec2Model ----------------------------
(***************************************************************************)
(* Model of the semantic ID codec of gotruward/ids (semantic_id.go).       *)
(*                                                                         *)
(* A Go string is modelled as a sequence of bytes (naturals 0..255), a     *)
(* byte slice as a record [isNil, b] so that a nil slice and an empty      *)
(* slice stay distinct, and an error as the name of the error variable     *)
(* ("nil" for no error).  Go indices are 0-based, sequence indices are     *)
(* 1-based: s[i] in Go is s[i + 1] here.                                   *)
(***************************************************************************)
EXTENDS Integers, Sequences, FiniteSets

\* ------------------------------------------------------------------ bounds

\* Largest number of name segments handed to NewCodecForNames.
MaxSegs == 2
\* Longest remainder appended to a prefix when building identifiers to decode.
MaxBodyLen == 2
\* Longest exhaustively enumerated payload handed to Encode.
MaxValueLen == 4

\* --------------------------------------------------------------- constants

MaxBytesIDSize == 256
prefixSeparator == 45
byteSize == 8
baseBits == 5
base == 32
baseMask == 31

ErrNil == "nil"
ErrIDTooBig == "ErrIDTooBig"
ErrIDEmpty == "ErrIDEmpty"
ErrInvalidChar == "ErrInvalidChar"
ErrMalformedID == "ErrMalformedID"
ErrInternal == "internal"

\* ------------------------------------------------------------ Go built-ins

Slice(elems) == [isNil |-> FALSE, b |-> elems]
NilSlice == [isNil |-> TRUE, b |-> <<>>]

\* 1 << n for the shift counts the codec uses (0..8)
Pow2(n) == <<1, 2, 4, 8, 16, 32, 64, 128, 256>>[n + 1]

\* x >> n and x << n on a uint8
Shr8(x, n) == x \div Pow2(n)
Shl8(x, n) == (x * Pow2(n)) % 256

\* bit i of x
Bit(x, i) == (x \div Pow2(i)) % 2

\* x | y and x & y on a uint8
Or8(x, y) ==
    LET b(i) == IF Bit(x, i) = 1 \/ Bit(y, i) = 1 THEN Pow2(i) ELSE 0
    IN  b(0) + b(1) + b(2) + b(3) + b(4) + b(5) + b(6) + b(7)
And8(x, y) ==
    LET b(i) == IF Bit(x, i) = 1 /\ Bit(y, i) = 1 THEN Pow2(i) ELSE 0
    IN  b(0) + b(1) + b(2) + b(3) + b(4) + b(5) + b(6) + b(7)

\* unicode.ToLower on the runes the model's strings can hold: ASCII, Latin-1
\* Supplement (U+00C0..U+00DE without U+00D7) and Latin Extended Additional
\* (U+1E00..U+1E95, upper case on the even code points).
unicodeToLower(r) ==
    IF r >= 65 /\ r <= 90 THEN r + 32
    ELSE IF r >= 192 /\ r <= 222 /\ r # 215 THEN r + 32
    ELSE IF r >= 7680 /\ r <= 7829 /\ r % 2 = 0 THEN r + 1
    ELSE r

\* unicode.ToUpper on the same runes
unicodeToUpper(r) ==
    IF r >= 97 /\ r <= 122 THEN r - 32
    ELSE IF r >= 224 /\ r <= 254 /\ r # 247 THEN r - 32
    ELSE IF r >= 7680 /\ r <= 7829 /\ r % 2 = 1 THEN r - 1
    ELSE r

IsCont(s, i) == i <= Len(s) /\ s[i] >= 128 /\ s[i] <= 191

\* utf8.DecodeRuneInString(s[i-1:]): the rune at (1-based) index i and its
\* width; a byte that starts no valid encoding is utf8.RuneError (U+FFFD) of
\* width 1.
DecodeRune(s, i) ==
    LET b0 == s[i] IN
    IF b0 < 128 THEN [r |-> b0, w |-> 1]
    ELSE IF b0 >= 194 /\ b0 <= 223 /\ IsCont(s, i + 1)
        THEN [r |-> (b0 - 192) * 64 + (s[i + 1] - 128), w |-> 2]
    ELSE IF b0 >= 224 /\ b0 <= 239 /\ IsCont(s, i + 1) /\ IsCont(s, i + 2)
            /\ (b0 = 224 => s[i + 1] >= 160) /\ (b0 = 237 => s[i + 1] <= 159)
        THEN [r |-> (b0 - 224) * 4096 + (s[i + 1] - 128) * 64 + (s[i + 2] - 128),
              w |-> 3]
    ELSE IF b0 >= 240 /\ b0 <= 244 /\ IsCont(s, i + 1) /\ IsCont(s, i + 2)
            /\ IsCont(s, i + 3)
            /\ (b0 = 240 => s[i + 1] >= 144) /\ (b0 = 244 => s[i + 1] <= 143)
        THEN [r |-> (b0 - 240) * 262144 + (s[i + 1] - 128) * 4096
                    + (s[i + 2] - 128) * 64 + (s[i + 3] - 128),
              w |-> 4]
    ELSE [r |-> 65533, w |-> 1]

\* utf8.EncodeRune
EncodeRune(r) ==
    IF r < 128 THEN <<r>>
    ELSE IF r < 2048 THEN <<192 + (r \div 64), 128 + (r % 64)>>
    ELSE IF r < 65536
        THEN <<224 + (r \div 4096), 128 + ((r \div 64) % 64), 128 + (r % 64)>>
    ELSE <<240 + (r \div 262144), 128 + ((r \div 4096) % 64),
           128 + ((r \div 64) % 64), 128 + (r % 64)>>

\* strings.ToLower: every rune of s mapped through unicode.ToLower and
\* encoded again; invalid UTF-8 becomes the encoding of RuneError.
RECURSIVE ToLowerFrom(_, _)
ToLowerFrom(s, i) ==
    IF i > Len(s) THEN <<>>
    ELSE LET d == DecodeRune(s, i)
         IN  EncodeRune(unicodeToLower(d.r)) \o ToLowerFrom(s, i + d.w)

stringsToLower(s) == ToLowerFrom(s, 1)

\* byte(unicode.ToLower(rune(ch))) for a byte ch of a string
byteToLower(ch) == unicodeToLower(ch) % 256


\* ---------------------------------------------------------- alphabet table

\* gen.Chars as tools/base32_table_gen.go prints it: the 32 characters
\* 0-9 a-h j k m n p-t v-z, lower-cased.
Chars ==
    <<48, 49, 50, 51, 52, 53, 54, 55, 56, 57,
      97, 98, 99, 100, 101, 102, 103, 104, 106, 107,
      109, 110, 112, 113, 114, 115, 116, 118, 119, 120,
      121, 122>>

\* bytes.ToUpper of one ASCII character of the table
asciiToUpper(ch) == IF ch >= 97 /\ ch <= 122 THEN ch - 32 ELSE ch

\* maxChar of the generator: the largest lower-case character of the table
maxChar == CHOOSE m \in {Chars[i] : i \in 1..Len(Chars)} :
               \A i \in 1..Len(Chars) : Chars[i] <= m

\* gen.CharToIndex: for every byte 0..maxChar the index of the character whose
\* lower-case or upper-case form it is, -1 for every other byte.
CharToIndex ==
    [ch \in 0..maxChar |->
        IF \E i \in 1..Len(Chars) : ch = Chars[i] \/ ch = asciiToUpper(Chars[i])
        THEN (CHOOSE i \in 1..Len(Chars) :
                 ch = Chars[i] \/ ch = asciiToUpper(Chars[i])) - 1
        ELSE -1]

\* ------------------------------------------------------------ PadlessBase32

getBaseChar(index) == Chars[index + 1]

\* getBaseCharCode(value, charPos): [code, err]
getBaseCharCode(value, charPos) ==
    LET ch == value[charPos + 1] IN
    IF ch < maxChar + 1 /\ CharToIndex[ch] >= 0
    THEN [code |-> CharToIndex[ch], err |-> ErrNil]
    ELSE [code |-> 0, err |-> ErrInvalidChar]

getEncodedSize(size) == (size * byteSize + baseBits - 1) \div baseBits

\* One iteration of the loop of appendBytes over the full base32 elements;
\* st holds the loop's variables and the buffer. Past the last full element
\* the loop has ended and st stays as it is.
appendStep(body, st) ==
    IF st.i >= (byteSize * Len(body)) \div baseBits THEN st
    ELSE
        LET endBitPos == st.offsetBitPos + baseBits
            elem == body[st.startPosByte + 1]
            low == And8(Shr8(elem, st.offsetBitPos), baseMask)
        IN  IF endBitPos > byteSize
            THEN LET tailBitCount == endBitPos - byteSize
                     high == Shl8(And8(body[st.startPosByte + 2],
                                       Pow2(tailBitCount) - 1),
                                  baseBits - tailBitCount)
                 IN  [startPosByte |-> st.startPosByte + 1,
                      offsetBitPos |-> tailBitCount,
                      i |-> st.i + 1,
                      buf |-> Append(st.buf, getBaseChar(Or8(low, high)))]
            ELSE [startPosByte |-> st.startPosByte,
                  offsetBitPos |-> endBitPos,
                  i |-> st.i + 1,
                  buf |-> Append(st.buf, getBaseChar(low))]

\* n iterations of the loop, split in halves to keep the evaluation shallow;
\* a half that changes nothing means the loop has ended.
RECURSIVE appendIter(_, _, _)
appendIter(body, st, n) ==
    IF n <= 0 THEN st
    ELSE IF n = 1 THEN appendStep(body, st)
    ELSE LET half == appendIter(body, st, n \div 2)
         IN  IF half = st THEN st
             ELSE appendIter(body, half, n - (n \div 2))

\* appendBytes with the last, partial element taken from the low bits of the
\* last byte instead of its leftover high bits.
appendBytesLowTail(body, buf) ==
    LET bodyLen == Len(body)
        bodyBits == byteSize * bodyLen
        partialBase32ElemBits == bodyBits % baseBits
        full == appendIter(body,
                           [startPosByte |-> 0, offsetBitPos |-> 0, i |-> 0,
                            buf |-> buf],
                           bodyBits \div baseBits).buf
    IN  IF partialBase32ElemBits > 0
        THEN Append(full, getBaseChar(And8(body[bodyLen],
                                           Pow2(partialBase32ElemBits) - 1)))
        ELSE full

\* appendBytes(body, buf): buf with the encoding of body written to it
appendBytes(body, buf) ==
    LET bodyLen == Len(body)
        bodyBits == byteSize * bodyLen
        fullBase32ElemCount == bodyBits \div baseBits
        partialBase32ElemBits == bodyBits % baseBits
        full == appendIter(body,
                           [startPosByte |-> 0, offsetBitPos |-> 0, i |-> 0,
                            buf |-> buf],
                           fullBase32ElemCount).buf
    IN  IF partialBase32ElemBits > 0
        THEN Append(full, getBaseChar(Shr8(body[bodyLen],
                                           byteSize - partialBase32ElemBits)))
        ELSE full

\* One iteration of the loop of decodeBytes; st holds the loop's variables,
\* the result and the error returned from inside the loop. Once the loop
\* condition fails or an error is returned st stays as it is.
decodeStep(value, endPos, byteCount, st) ==
    IF st.err # ErrNil \/ ~(st.resultPos < byteCount /\ st.charPos < endPos)
    THEN st
    ELSE IF st.tailBitsCount > 0
    THEN [st EXCEPT !.result[st.resultPos + 1] = Or8(@, st.tailBits),
                    !.resultBitsOffset = st.tailBitsCount,
                    !.tailBitsCount = 0,
                    !.charPos = @ + 1]
    ELSE
        LET c == getBaseCharCode(value, st.charPos)
            base32Digit == c.code
            nextBitOffset == st.resultBitsOffset + baseBits
            written == [st.result EXCEPT ![st.resultPos + 1] =
                            Or8(@, Shl8(base32Digit, st.resultBitsOffset))]
        IN  IF c.err # ErrNil THEN [st EXCEPT !.err = c.err]
            ELSE IF nextBitOffset > byteSize
            THEN [st EXCEPT !.tailBits =
                                Shr8(base32Digit, byteSize - st.resultBitsOffset),
                            !.tailBitsCount = nextBitOffset - byteSize,
                            !.result = written,
                            !.resultPos = @ + 1,
                            !.resultBitsOffset = 0]
            ELSE IF nextBitOffset = byteSize
            THEN [st EXCEPT !.charPos = @ + 1,
                            !.result = written,
                            !.resultPos = @ + 1,
                            !.resultBitsOffset = 0]
            ELSE [st EXCEPT !.charPos = @ + 1,
                            !.result = written,
                            !.resultBitsOffset = nextBitOffset]

\* n iterations of the loop, split in halves to keep the evaluation shallow;
\* a half that changes nothing means the loop has ended.
RECURSIVE decodeIter(_, _, _, _, _)
decodeIter(value, endPos, byteCount, st, n) ==
    IF n <= 0 THEN st
    ELSE IF n = 1 THEN decodeStep(value, endPos, byteCount, st)
    ELSE LET half == decodeIter(value, endPos, byteCount, st, n \div 2)
         IN  IF half = st THEN st
             ELSE decodeIter(value, endPos, byteCount, half, n - (n \div 2))

\* The loop of decodeBytes from its first iteration to its end: every
\* iteration advances charPos or resultPos, so there are at most
\* (endPos - startPos) + byteCount of them.
decodeLoop(value, startPos, endPos, byteCount) ==
    LET st == decodeIter(value, endPos, byteCount,
                         [charPos |-> startPos, resultPos |-> 0,
                          resultBitsOffset |-> 0, tailBits |-> 0,
                          tailBitsCount |-> 0,
                          result |-> [k \in 1..byteCount |-> 0],
                          err |-> ErrNil],
                         (endPos - startPos) + byteCount)
    IN  IF st.err # ErrNil THEN [b |-> NilSlice, err |-> st.err]
        ELSE [b |-> Slice(st.result), err |-> ErrNil]

\* decodeBytes(value, startPos, endPos): [b, err]
decodeBytes(value, startPos, endPos) ==
    IF startPos < 0 THEN [b |-> NilSlice, err |-> ErrInternal]
    ELSE IF endPos <= startPos THEN [b |-> NilSlice, err |-> ErrInternal]
    ELSE LET length == endPos - startPos
             byteCount == (length * baseBits) \div byteSize
         IN  decodeLoop(value, startPos, endPos, byteCount)


\* ------------------------------------------------------------------- codec

\* NewCodecForNames(names...): the codec holding the lower-cased names
NewCodecForNames(names) ==
    [Names |-> [index \in 1..Len(names) |-> stringsToLower(names[index])]]

\* newBufferWithPrefix(names, capacity): every name followed by the separator
RECURSIVE prefixFrom(_, _)
prefixFrom(names, i) ==
    IF i >= Len(names) THEN <<>>
    ELSE names[i + 1] \o <<prefixSeparator>> \o prefixFrom(names, i + 1)

newBufferWithPrefix(names) == prefixFrom(names, 0)

\* (c *prefixedIDCodec) GetPrefix()
codecGetPrefix(c) == newBufferWithPrefix(c.Names)

RECURSIVE prefixLengthFrom(_, _)
prefixLengthFrom(names, i) ==
    IF i >= Len(names) THEN 0
    ELSE Len(names[i + 1]) + 1 + prefixLengthFrom(names, i + 1)

getPrefixLength(names) == prefixLengthFrom(names, 0)

\* The inner loop of computeAndValidatePrefix: the characters of name from
\* nameCharIndex on against id from charIndex on. The next charIndex, or -1
\* where the code returns ErrMalformedID.
RECURSIVE matchName(_, _, _, _)
matchName(name, id, charIndex, nameCharIndex) ==
    IF nameCharIndex >= Len(name) THEN charIndex
    ELSE IF charIndex < Len(id)
            /\ byteToLower(id[charIndex + 1]) = name[nameCharIndex + 1]
    THEN matchName(name, id, charIndex + 1, nameCharIndex + 1)
    ELSE -1

\* The outer loop taking any character after a name for the separator.
RECURSIVE matchNamesAnySeparator(_, _, _, _)
matchNamesAnySeparator(names, id, nameIndex, charIndex) ==
    IF nameIndex >= Len(names) THEN charIndex
    ELSE LET afterName == matchName(names[nameIndex + 1], id, charIndex, 0)
         IN  IF afterName >= 0 /\ afterName < Len(id)
             THEN matchNamesAnySeparator(names, id, nameIndex + 1, afterName + 1)
             ELSE -1

\* The outer loop of computeAndValidatePrefix: every name from nameIndex on,
\* each followed by the separator.
RECURSIVE matchNames(_, _, _, _)
matchNames(names, id, nameIndex, charIndex) ==
    IF nameIndex >= Len(names) THEN charIndex
    ELSE LET afterName == matchName(names[nameIndex + 1], id, charIndex, 0)
         IN  IF afterName >= 0 /\ afterName < Len(id)
                /\ id[afterName + 1] = prefixSeparator
             THEN matchNames(names, id, nameIndex + 1, afterName + 1)
             ELSE -1

\* The validation of the body stopping one character early.
validateBodySkipLast(id, i) ==
    LET bad == {k \in i..(Len(id) - 2) : getBaseCharCode(id, k).err # ErrNil}
    IN  IF bad = {} THEN ErrNil ELSE ErrInvalidChar

\* The validation of the body: the error getBaseCharCode returns for the
\* first character from index i on that it rejects.
validateBody(id, i) ==
    LET bad == {k \in i..(Len(id) - 1) : getBaseCharCode(id, k).err # ErrNil}
    IN  IF bad = {} THEN ErrNil
        ELSE getBaseCharCode(id, CHOOSE k \in bad : \A j \in bad : k <= j).err

\* computeAndValidatePrefix(c, id): [n, err]
computeAndValidatePrefix(c, id) ==
    LET charIndex == matchNames(c.Names, id, 0, 0) IN
    IF charIndex < 0 THEN [n |-> 0, err |-> ErrMalformedID]
    ELSE IF Len(id) - charIndex > 0
    THEN IF validateBody(id, charIndex) # ErrNil
         THEN [n |-> 0, err |-> validateBody(id, charIndex)]
         ELSE [n |-> charIndex, err |-> ErrNil]
    ELSE [n |-> 0, err |-> ErrMalformedID]

\* (c *prefixedIDCodec) CanDecode(id)
CanDecode(c, id) == computeAndValidatePrefix(c, id).err = ErrNil

\* Encode refusing a value of exactly MaxBytesIDSize bytes.
EncodeTooBigAtMax(c, value) ==
    LET valueLen == Len(value.b) IN
    IF value.isNil \/ valueLen = 0 THEN [id |-> <<>>, err |-> ErrIDEmpty]
    ELSE IF valueLen >= MaxBytesIDSize THEN [id |-> <<>>, err |-> ErrIDTooBig]
    ELSE [id |-> appendBytes(value.b, newBufferWithPrefix(c.Names)),
          err |-> ErrNil]

\* (c *prefixedIDCodec) Encode(value): [id, err]
Encode(c, value) ==
    LET valueLen == Len(value.b) IN
    IF value.isNil \/ valueLen = 0 THEN [id |-> <<>>, err |-> ErrIDEmpty]
    ELSE IF valueLen > MaxBytesIDSize THEN [id |-> <<>>, err |-> ErrIDTooBig]
    ELSE LET capacity == getPrefixLength(c.Names) + getEncodedSize(valueLen)
             buf == appendBytes(value.b, newBufferWithPrefix(c.Names))
         IN  IF Len(buf) # capacity
             THEN [id |-> <<>>, err |-> ErrInternal]
             ELSE [id |-> buf, err |-> ErrNil]

\* (c *prefixedIDCodec) Decode(id): [b, err]
Decode(c, id) ==
    LET p == computeAndValidatePrefix(c, id) IN
    IF p.err # ErrNil THEN [b |-> NilSlice, err |-> p.err]
    ELSE decodeBytes(id, p.n, Len(id))

\* The index of the first c in s instead of the last.
FirstIndexByte(s, c) ==
    LET at == {i \in 0..(Len(s) - 1) : s[i + 1] = c}
    IN  IF at = {} THEN -1 ELSE CHOOSE i \in at : \A j \in at : i <= j

\* strings.LastIndexByte(s, c): the 0-based index of the last c in s, or -1
LastIndexByte(s, c) ==
    LET at == {i \in 0..(Len(s) - 1) : s[i + 1] = c}
    IN  IF at = {} THEN -1 ELSE CHOOSE i \in at : \A j \in at : j <= i

\* GetPrefix returning "" only when there is no separator at all.
GetPrefixNotFoundOnly(maybeSemanticID) ==
    LET lastPrefixIndex == LastIndexByte(maybeSemanticID, prefixSeparator) IN
    IF lastPrefixIndex < 0 THEN <<>>
    ELSE stringsToLower(SubSeq(maybeSemanticID, 1, lastPrefixIndex + 1))

\* GetPrefix(maybeSemanticID), the package-level function
GetPrefix(maybeSemanticID) ==
    LET lastPrefixIndex == LastIndexByte(maybeSemanticID, prefixSeparator) IN
    IF lastPrefixIndex <= 0 THEN <<>>
    ELSE stringsToLower(SubSeq(maybeSemanticID, 1, lastPrefixIndex + 1))

\* ------------------------------------------------------------------ inputs

\* The name segments codecs are built from: "", "a", "A", "é", "É" and "ḁ"
\* (U+1E01), the last three in UTF-8.
Segments ==
    {<<>>, <<97>>, <<65>>, <<195, 169>>, <<195, 137>>, <<225, 184, 129>>}

SegLists == UNION {[1..n -> Segments] : n \in 0..MaxSegs}

\* The characters of the remainders: '-', '0', 'A', '!' and '~'.
BodyChars == {45, 48, 65, 33, 126}

\* A remainder of n alphabet characters that follow no pattern of the
\* codec's, every third one in upper case.
SymbolBody(n, seed) ==
    [i \in 1..n |->
        LET ch == Chars[((i * 7 + seed) % base) + 1]
        IN  IF i % 3 = 0 THEN asciiToUpper(ch) ELSE ch]

\* Remainders longer than MaxBodyLen, of symbol counts Encode produces and of
\* counts it never produces, and the shortest one that unpacks to more than
\* MaxBytesIDSize bytes.
LongBodies ==
    {SymbolBody(n, seed) :
        n \in (MaxBodyLen + 1)..(MaxBodyLen + 8), seed \in {3, 20}}
        \cup {SymbolBody(getEncodedSize(MaxBytesIDSize) + 2, 3)}

Bodies == UNION {[1..n -> BodyChars] : n \in 0..MaxBodyLen}

\* The identifiers handed to Decode, CanDecode and GetPrefix: the prefix of
\* some segment list as written (not lower-cased), then a remainder.
Ids == {newBufferWithPrefix(S) \o body : S \in SegLists, body \in Bodies}

PayloadBytes == {0, 180, 255}

\* A payload of n bytes that follow no pattern of the codec's.
LongValue(n, seed) == [i \in 1..n |-> (i * 37 + seed) % 256]

\* The payloads handed to Encode: nil, every sequence of PayloadBytes up to
\* MaxValueLen bytes, the five-byte test vector, some longer payloads, and
\* the payloads of MaxBytesIDSize and of MaxBytesIDSize + 1 bytes.
Values ==
    {NilSlice}
        \cup {Slice(b) : b \in UNION {[1..n -> PayloadBytes] : n \in 0..MaxValueLen}}
        \cup {Slice(<<1, 1, 1, 1, 1>>)}
        \cup {Slice(LongValue(n, seed)) :
                n \in (MaxValueLen + 1)..(MaxValueLen + 6), seed \in {11, 200}}
        \cup {Slice(LongValue(n, 11)) :
                n \in MaxBytesIDSize..(MaxBytesIDSize + 1)}

\* ----------------------------------------------------------- state machine

VARIABLES
    codec,      \* the codec under test, built by NewCodecForNames
    op,         \* the call made last ("init": none yet)
    value,      \* the payload given to Encode
    id,         \* the identifier Encode returned or the call was given
    ret         \* what the call returned

vars == <<codec, op, value, id, ret>>

Ret(b, err, s, ok) == [b |-> b, err |-> err, s |-> s, ok |-> ok]
NoRet == Ret(NilSlice, ErrNil, <<>>, FALSE)

Init ==
    /\ \E S \in SegLists : codec = NewCodecForNames(S)
    /\ op = "init"
    /\ value = NilSlice
    /\ id = <<>>
    /\ ret = NoRet

\* id, err := codec.Encode(v)
DoEncode ==
    /\ op = "init"
    /\ \E v \in Values :
          LET r == Encode(codec, v)
          IN  /\ id' = r.id
              /\ ret' = Ret(NilSlice, r.err, <<>>, FALSE)
              /\ value' = v
    /\ op' = "Encode"
    /\ UNCHANGED codec

\* b, err := codec.Decode(id) for the id an Encode just returned
DoDecodeEncoded ==
    /\ op = "Encode"
    /\ ret.err = ErrNil
    /\ LET r == Decode(codec, id)
       IN  ret' = Ret(r.b, r.err, <<>>, FALSE)
    /\ op' = "DecodeEncoded"
    /\ UNCHANGED <<codec, value, id>>

\* GetPrefix(id) for the id an Encode just returned
DoGetPrefixEncoded ==
    /\ op = "Encode"
    /\ ret.err = ErrNil
    /\ ret' = Ret(NilSlice, ErrNil, GetPrefix(id), FALSE)
    /\ op' = "GetPrefixEncoded"
    /\ UNCHANGED <<codec, value, id>>

\* b, err := codec.Decode(s)
DoDecode ==
    /\ op = "init"
    /\ \E s \in Ids :
          LET r == Decode(codec, s)
          IN  /\ ret' = Ret(r.b, r.err, <<>>, FALSE)
              /\ id' = s
    /\ op' = "Decode"
    /\ UNCHANGED <<codec, value>>

\* b, err := codec.Decode(s) for s the codec's prefix and a long remainder of
\* alphabet characters
DoDecodeSymbols ==
    /\ op = "init"
    /\ \E body \in LongBodies :
          LET s == codecGetPrefix(codec) \o body
              r == Decode(codec, s)
          IN  /\ ret' = Ret(r.b, r.err, <<>>, FALSE)
              /\ id' = s
    /\ op' = "DecodeSymbols"
    /\ UNCHANGED <<codec, value>>

\* ok := codec.CanDecode(s)
DoCanDecode ==
    /\ op = "init"
    /\ \E s \in Ids :
          /\ ret' = Ret(NilSlice, ErrNil, <<>>, CanDecode(codec, s))
          /\ id' = s
    /\ op' = "CanDecode"
    /\ UNCHANGED <<codec, value>>

\* GetPrefix(s)
DoGetPrefix ==
    /\ op = "init"
    /\ \E s \in Ids :
          /\ ret' = Ret(NilSlice, ErrNil, GetPrefix(s), FALSE)
          /\ id' = s
    /\ op' = "GetPrefix"
    /\ UNCHANGED <<codec, value>>

\* codec.GetPrefix()
DoCodecGetPrefix ==
    /\ op = "init"
    /\ ret' = Ret(NilSlice, ErrNil, codecGetPrefix(codec), FALSE)
    /\ op' = "CodecGetPrefix"
    /\ UNCHANGED <<codec, value, id>>

\* A caller makes one call on a freshly built codec, and may hand the
\* identifier an Encode returned to Decode or to GetPrefix.
Next ==
    \/ DoEncode
    \/ DoDecodeEncoded
    \/ DoGetPrefixEncoded
    \/ DoDecode
    \/ DoDecodeSymbols
    \/ DoCanDecode
    \/ DoGetPrefix
    \/ DoCodecGetPrefix

Spec == Init /\ [][Next]_vars

\* The calls that encode, and what is done with the identifier returned.
NextEncode ==
    \/ DoEncode
    \/ DoDecodeEncoded
    \/ DoGetPrefixEncoded

SpecEncode == Init /\ [][NextEncode]_vars

\* Encode alone: the identifiers a codec produces.
SpecEncodeOnly == Init /\ [][DoEncode]_vars

\* CanDecode on an arbitrary identifier.
SpecCanDecode == Init /\ [][DoCanDecode]_vars

\* The package-level GetPrefix on an arbitrary string: it reads no codec, so
\* the codec held is the one of no segments.
InitGetPrefix ==
    /\ codec = NewCodecForNames(<<>>)
    /\ op = "init"
    /\ value = NilSlice
    /\ id = <<>>
    /\ ret = NoRet

SpecGetPrefix == InitGetPrefix /\ [][DoGetPrefix]_vars

\* ------------------------------------------------------------------ claims

\* C1: Round-trip. For every payload b of 1..MaxBytesIDSize bytes and every
\* segment list, Encode(b) succeeds, and Decode of the identifier it returned,
\* on the same codec, succeeds and returns exactly b.
C1_RoundTrip ==
    /\ (op = "Encode" /\ ~value.isNil /\ Len(value.b) >= 1
            /\ Len(value.b) <= MaxBytesIDSize)
        => ret.err = ErrNil
    /\ op = "DecodeEncoded" => (ret.err = ErrNil /\ ret.b = value)

\* Every string got from s by lower-casing or upper-casing each of its
\* characters independently; a byte that is no character stays as it is.
RECURSIVE CaseVariantsFrom(_, _)
CaseVariantsFrom(s, i) ==
    IF i > Len(s) THEN {<<>>}
    ELSE LET d == DecodeRune(s, i)
             heads == IF d.r = 65533 /\ d.w = 1 THEN {<<s[i]>>}
                      ELSE {EncodeRune(unicodeToLower(d.r)),
                            EncodeRune(unicodeToUpper(d.r))}
         IN  {h \o t : h \in heads, t \in CaseVariantsFrom(s, i + d.w)}

CaseVariants(s) == CaseVariantsFrom(s, 1)

\* C2: Case-insensitivity. If Decode(id) succeeds with result r, Decode of
\* every per-character case variant of id succeeds, on the same codec, with
\* the same r.
C2_CaseInsensitive ==
    (op = "Decode" /\ ret.err = ErrNil)
        => \A v \in CaseVariants(id) :
              Decode(codec, v) = [b |-> ret.b, err |-> ErrNil]

\* C3: codec equivalence. The codec under test, built from a list S1, and the
\* codec built from any list S2 equal to S1 after lower-casing have equal
\* GetPrefix() values, encode every payload to the same string, and each
\* decodes what the other encoded to the payload.
C3_CodecEquivalence ==
    \A S2 \in SegLists :
        [i \in 1..Len(S2) |-> stringsToLower(S2[i])] = codec.Names =>
            LET c2 == NewCodecForNames(S2)
            IN  /\ codecGetPrefix(c2) = codecGetPrefix(codec)
                /\ op = "Encode"
                    => Encode(c2, value) = [id |-> id, err |-> ret.err]
                /\ (op = "Encode" /\ ret.err = ErrNil)
                    => Decode(c2, id) = [b |-> value, err |-> ErrNil]
                /\ op = "DecodeEncoded" => (ret.err = ErrNil /\ ret.b = value)

\* C4: Encode acceptance boundaries. Encode returns ErrIDEmpty and "" exactly
\* for a nil or empty value, ErrIDTooBig and "" exactly for more than
\* MaxBytesIDSize bytes, succeeds for 1..MaxBytesIDSize bytes, and never
\* returns the internal "unexpected buffer size" error.
C4_EncodeBoundaries ==
    op = "Encode" =>
        /\ ret.err = ErrIDEmpty <=> (value.isNil \/ Len(value.b) = 0)
        /\ ret.err = ErrIDTooBig <=> Len(value.b) > MaxBytesIDSize
        /\ (Len(value.b) >= 1 /\ Len(value.b) <= MaxBytesIDSize)
            <=> ret.err = ErrNil
        /\ ret.err # ErrNil => id = <<>>
        /\ ret.err # ErrInternal

C4_Witness ==
    /\ op = "Encode"
    /\ Len(value.b) = MaxBytesIDSize
    /\ Len(codec.Names) = MaxSegs
    /\ ret.err = ErrNil
    /\ Len(id) = getPrefixLength(codec.Names) + 410

\* The characters of the alphabet, in either case.
ValidChars ==
    {Chars[i] : i \in 1..Len(Chars)}
        \cup {unicodeToUpper(Chars[i]) : i \in 1..Len(Chars)}

\* id starts with every segment of the codec in order, compared
\* case-insensitively, each followed by the separator.
PrefixMatches(c, s) ==
    LET n == Len(codecGetPrefix(c))
    IN  /\ Len(s) >= n
        /\ stringsToLower(SubSeq(s, 1, n)) = codecGetPrefix(c)

\* What follows the codec's prefix in id.
Remainder(c, s) == SubSeq(s, Len(codecGetPrefix(c)) + 1, Len(s))

AllValid(s) == \A i \in 1..Len(s) : s[i] \in ValidChars

\* C5: Decodability. Decode(id) succeeds if and only if id is the codec's
\* segments in order (case-insensitively), each followed by '-', then a
\* non-empty remainder of alphabet characters only.
C5_Decodability ==
    op = "Decode" =>
        (ret.err = ErrNil <=>
            /\ PrefixMatches(codec, id)
            /\ Remainder(codec, id) # <<>>
            /\ AllValid(Remainder(codec, id)))

\* C6: Decode error kinds. A failed Decode returns nil bytes; the error is
\* ErrMalformedID when the prefix does not match or the remainder is empty,
\* and ErrInvalidChar when the prefix matches and the non-empty remainder
\* holds a character outside the alphabet.
C6_DecodeErrors ==
    (op = "Decode" /\ ret.err # ErrNil) =>
        /\ ret.b = NilSlice
        /\ (~PrefixMatches(codec, id) \/ Remainder(codec, id) = <<>>)
            => ret.err = ErrMalformedID
        /\ (PrefixMatches(codec, id) /\ Remainder(codec, id) # <<>>
                /\ ~AllValid(Remainder(codec, id)))
            => ret.err = ErrInvalidChar

\* C7: CanDecode agrees with Decode. CanDecode(id) is true if and only if
\* Decode(id) returns a nil error.
C7_CanDecodeIffDecode ==
    op = "CanDecode" => (ret.ok <=> Decode(codec, id).err = ErrNil)

C7_Witness ==
    /\ op = "CanDecode"
    /\ ret.ok
    /\ Len(codec.Names) = 2
    /\ Len(id) - getPrefixLength(codec.Names) = 2
    /\ Decode(codec, id).b.b # <<0>>

\* C8 as stated: GetPrefix of the string Encode returned equals the codec's
\* GetPrefix(), for every codec.
C8_PrefixRecovered ==
    op = "GetPrefixEncoded" => ret.s = codecGetPrefix(codec)

\* C8, amended: GetPrefix of the string Encode returned equals the codec's
\* GetPrefix() for every codec but the one built from the single empty
\* segment, whose prefix is the lone separator; there it is the empty string.
C8_PrefixRecoveredAmended ==
    op = "GetPrefixEncoded" =>
        ret.s = IF codec.Names = <<<<>>>> THEN <<>> ELSE codecGetPrefix(codec)

C8_Witness ==
    /\ op = "GetPrefixEncoded"
    /\ Len(codec.Names) = 2
    /\ codec.Names[1] # <<>>
    /\ Len(value.b) > 1
    /\ ret.s = codecGetPrefix(codec)

\* The 1-based positions of the separator in s.
SepPositions(s) == {i \in 1..Len(s) : s[i] = prefixSeparator}

\* C9: GetPrefix(s) is empty when s holds no '-' or its last '-' is its first
\* character; otherwise it is s up to and including its last '-',
\* lower-cased, whatever follows that '-'.
C9_GetPrefix ==
    (op = "GetPrefix" \/ op = "GetPrefixEncoded") =>
        LET seps == SepPositions(id)
            last == CHOOSE i \in seps : \A j \in seps : j <= i
        IN  IF seps = {} \/ seps = {1} THEN ret.s = <<>>
            ELSE ret.s = stringsToLower(SubSeq(id, 1, last))

C9_Witness ==
    /\ op = "GetPrefix"
    /\ Cardinality(SepPositions(id)) = 2
    /\ ret.s # <<>>
    /\ ret.s # SubSeq(id, 1, Len(ret.s))
    /\ Len(id) > Len(ret.s)
    /\ ~AllValid(SubSeq(id, Len(ret.s) + 1, Len(id)))

\* Bit i of the payload b read as a bit stream, low bit of each byte first;
\* 0 past its end.
StreamBit(b, i) == IF i < 8 * Len(b) THEN Bit(b[(i \div 8) + 1], i % 8) ELSE 0

\* The value of symbol k of the packing of b.
SymbolRef(b, k) ==
    StreamBit(b, 5 * k) + 2 * StreamBit(b, 5 * k + 1)
        + 4 * StreamBit(b, 5 * k + 2) + 8 * StreamBit(b, 5 * k + 3)
        + 16 * StreamBit(b, 5 * k + 4)

\* The segments, each followed by '-'.
RECURSIVE JoinSegments(_)
JoinSegments(names) ==
    IF names = <<>> THEN <<>>
    ELSE Head(names) \o <<45>> \o JoinSegments(Tail(names))

\* C10: Encode output equals the reference packing. Encode(b) is the codec's
\* prefix followed by exactly ceil(8n/5) alphabet characters, character k the
\* one of symbol value SymbolRef(b, k).
C10_EncodeReference ==
    (op = "Encode" /\ ret.err = ErrNil) =>
        LET n == Len(value.b)
            count == (8 * n + 4) \div 5
        IN  id = JoinSegments(codec.Names)
                    \o [k \in 1..count |-> Chars[SymbolRef(value.b, k - 1) + 1]]

C10_Witness ==
    /\ op = "Encode"
    /\ codec.Names = <<>>
    /\ value.b = <<1, 1, 1, 1, 1>>
    /\ id = <<49, 56, 48, 50, 103, 48, 52, 48>>

\* The value of the alphabet character ch, in either case.
SymbolValue(ch) ==
    CHOOSE k \in 0..(base - 1) :
        Chars[k + 1] = ch \/ unicodeToUpper(Chars[k + 1]) = ch

\* Bit p of the unpacking of the symbols: bit (p mod 5) of symbol (p div 5).
UnpackedBit(symbols, p) ==
    Bit(SymbolValue(symbols[(p \div baseBits) + 1]), p % baseBits)

\* C11: Decode output equals the reference unpacking. For an identifier whose
\* prefix matches the codec's and whose remainder is n >= 1 alphabet
\* characters, Decode succeeds and returns exactly floor(5n/8) bytes, bit j of
\* byte i being bit ((8i+j) mod 5) of symbol ((8i+j) div 5), for every n.
C11_DecodeReference ==
    ((op = "Decode" \/ op = "DecodeSymbols" \/ op = "DecodeEncoded")
            /\ PrefixMatches(codec, id)
            /\ Remainder(codec, id) # <<>>
            /\ AllValid(Remainder(codec, id)))
        => LET symbols == Remainder(codec, id)
               count == (baseBits * Len(symbols)) \div byteSize
           IN  /\ ret.err = ErrNil
               /\ ~ret.b.isNil
               /\ Len(ret.b.b) = count
               /\ \A i \in 0..(count - 1) : \A j \in 0..(byteSize - 1) :
                      Bit(ret.b.b[i + 1], j)
                          = UnpackedBit(symbols, byteSize * i + j)

\* C12: Payload size bound. Every byte sequence a successful Decode returns,
\* on any codec, has at least 1 and at most MaxBytesIDSize bytes, the range
\* Encode accepts.
C12_DecodedSizeBound ==
    ((op = "Decode" \/ op = "DecodeSymbols" \/ op = "DecodeEncoded")
            /\ ret.err = ErrNil)
        => (Len(ret.b.b) >= 1 /\ Len(ret.b.b) <= MaxBytesIDSize)

\* The names the other codec is built from: those of Segments, and the names
\* "-" and "0", made of a separator and of an alphabet character.
OtherSegments == Segments \cup {<<45>>, <<48>>}

OtherSegLists == UNION {[1..n -> OtherSegments] : n \in 0..MaxSegs}

\* The codecs built from them.
OtherCodecs == {NewCodecForNames(T) : T \in OtherSegLists}

\* C13: the prefix/payload boundary is unambiguous across codecs. If the codec
\* built from any segment list T decodes, or CanDecode accepts, the identifier
\* Encode(b) of the codec under test, the two codecs have equal GetPrefix()
\* values and the decode returns b.
C13_BoundaryUnambiguous ==
    (op = "Encode" /\ ret.err = ErrNil) =>
        \A cT \in OtherCodecs :
            (CanDecode(cT, id) \/ Decode(cT, id).err = ErrNil)
                => /\ codecGetPrefix(cT) = codecGetPrefix(codec)
                   /\ Decode(cT, id) = [b |-> value, err |-> ErrNil]

C13_Witness ==
    /\ op = "Encode"
    /\ ret.err = ErrNil
    /\ codec.Names = <<<<>>, <<>>>>
    /\ Len(value.b) > 1
    /\ CanDecode(NewCodecForNames(<<<<45>>>>), id)
    /\ Decode(NewCodecForNames(<<<<45>>>>), id).b = value

=============================================================================
